---- MODULE Spec2Model ----
(***************************************************************************)
(* A model of src/src/core/data_fetcher.py: the retrying HTTP executor     *)
(* _request_with_backoff, the paginated searcher _search_ids and the batch  *)
(* fetcher _fetch_details that call it, and fetch_report_data on top of    *)
(* them.  One executor call is a loop of attempts; every attempt is one    *)
(* HTTP request whose outcome the remote side chooses.  The batch driver   *)
(* main of src/src/core/cli.py runs the reports of a configuration one     *)
(* after the other.                                                        *)
(***************************************************************************)
EXTENDS Integers, Sequences, FiniteSets, TLC

VARIABLES
    entry,      \* the function the caller invoked
    api,        \* the remote API: free to answer as it likes, or a fixed dataset
    BACKOFF_BASE, \* the module global read from the environment at import
    xpc,        \* position of _request_with_backoff: idle, loop, returned, raised
    attempt,    \* the loop variable `attempt` (-1 before the first iteration)
    nreq,       \* requests.request calls made by the current executor call
    nwait,      \* bounded_sleep calls made by the current executor call
    resp,       \* outcome of the last requests.request
    wait_s,     \* the last computed wait_s
    slept,      \* what the last bounded_sleep handed to time.sleep
    exc,        \* the exception the executor call raised
    failed,     \* kinds of failed attempts seen in the current executor call
    spc,        \* position of _search_ids: off, while, await, done, raised
    term,       \* argument term of _search_ids
    max_items,  \* argument max_items of _search_ids
    per_page,   \* local per_page
    page,       \* local page
    ids,        \* local ids
    result,     \* value returned by _search_ids
    searchReqs, \* params of the page requests issued, in order
    pageLog,    \* for every page received: its length and its ids
    dpc,        \* position of _fetch_details: off, start, for, await, done, raised
    dids,       \* argument ids of _fetch_details
    fields,     \* argument fields of _fetch_details
    batches,    \* the list _chunk(ids, 50) the for loop runs over
    bi,         \* index in batches of the batch the for loop is at
    results,    \* local results, the value _fetch_details returns
    detailReqs, \* params of the detail requests issued, in order
    respLog,    \* the data list of every detail response, in order
    rpc,        \* position of fetch_report_data: off, start, search, details, done, raised
    report,     \* argument report of fetch_report_data
    name,       \* local name
    search,     \* local search
    rfields,    \* local fields
    rmax_items, \* local max_items
    out,        \* the value fetch_report_data returns
    rexc,       \* the exception that leaves fetch_report_data
    cpc,        \* position of main: off, load, for, fetch, write_json, render_pdf,
                \* send_email, check, summary, exit, exited, crashed
    config,     \* what load_queries finds at the --config path
    dry_run,    \* option --dry-run
    max_runtime, \* option --max-runtime, then the effective limit
    MAX_RUNTIME, \* environment variable MAX_RUNTIME
    now,        \* time.time()
    start_ts,   \* local start_ts
    reports,    \* local reports
    rpt_i,      \* index in reports of the report the for loop is at
    cname,      \* local name of main
    safe_name,  \* local safe_name
    fetched,    \* local data
    summary,    \* local summary
    failures,   \* local failures
    files,      \* files written to the output directory
    emails,     \* send_email calls that succeeded, in order
    job_summary, \* local job_summary
    exit_code,  \* exit status of the process, -1 while it runs
    cexc,       \* the exception that leaves main uncaught
    bpc,        \* position of bounded_sleep: off, idle, called, returned, raised
    seconds,    \* argument seconds of bounded_sleep
    sleep_arg,  \* the value handed to time.sleep
    slept_for,  \* the time bounded_sleep has slept
    swallowed,  \* the exception the except clause of bounded_sleep caught
    bodies,     \* the shape of every response body a stage has decoded, in order
    parse_exc,  \* the exception resp.json() or payload.get raised in a stage
    nhttp       \* HTTP requests issued since the entry function was called,
                \* -1 where the caller keeps no count

xvars == <<xpc, attempt, nreq, nwait, resp, wait_s, slept, exc, failed>>
svars == <<spc, term, max_items, per_page, page, ids, result, searchReqs, pageLog>>
dvars == <<dpc, dids, fields, batches, bi, results, detailReqs, respLog>>
rvars == <<rpc, report, name, search, rfields, rmax_items, out, rexc>>
\* the state of the callers of the fetch functions
cvars == <<cpc, config, dry_run, max_runtime, MAX_RUNTIME, now, start_ts, reports, rpt_i,
           cname, safe_name, fetched, summary, failures, files, emails, job_summary,
           exit_code, cexc>>
bvars == <<bpc, seconds, sleep_arg, slept_for, swallowed>>
uvars == <<rvars, cvars, bvars>>
\* the decoding of response bodies in _search_ids and _fetch_details
pvars == <<bodies, parse_exc>>
vars == <<entry, api, BACKOFF_BASE, nhttp, pvars, xvars, svars, dvars, uvars>>

----------------------------------------------------------------------------
(* Bounds of the model *)

\* pages after which the model stops following a search
MaxPages == 3
\* max_items runs over -1 .. SmallMaxItems and one value above the page cap
SmallMaxItems == 3

----------------------------------------------------------------------------
(* Python floats, as exact fractions n/d; d = 0 holds nan (0/0), inf (1/0) *)

Rat(n, d) == [n |-> n, d |-> d]
NaN == Rat(0, 0)
\* a local that is not bound yet
Unbound == Rat(0, -1)
Inf == Rat(1, 0)
IsNaN(x) == x.n = 0 /\ x.d = 0

\* a < b on floats: every comparison with nan is false
FLt(a, b) == ~IsNaN(a) /\ ~IsNaN(b) /\ a.n * b.d < b.n * a.d

\* Python min(a, b): the first argument unless the second is smaller
PyMin(a, b) == IF FLt(b, a) THEN b ELSE a

\* Python max(a, b): the first argument unless the second is greater
PyMax(a, b) == IF FLt(a, b) THEN b ELSE a

RECURSIVE IntPow(_, _)
IntPow(b, k) == IF k = 0 THEN 1 ELSE b * IntPow(b, k - 1)

\* x ** k for a finite x and an integer k >= 0
FPow(x, k) == Rat(IntPow(x.n, k), IntPow(x.d, k))

FMul(x, m) == Rat(x.n * m, x.d)

----------------------------------------------------------------------------
(* Configuration, data_fetcher.py:41-44 *)

MAX_RETRIES == 4
BACKOFF_CAP == Rat(8, 1)
\* float(os.getenv("BACKOFF_BASE", 0.8))
DefaultBackoffBase == Rat(4, 5)
\* the values of BACKOFF_BASE the model runs under: the default and one
\* above 1, under which the backoff reaches the cap
BackoffBases == {DefaultBackoffBase, Rat(2, 1)}

----------------------------------------------------------------------------
(* HTTP outcomes of one requests.request *)

NoHeader == "<absent>"

\* values of the Retry-After header the model lets the server send
RetryAfterHeaders ==
    {NoHeader, "", "abc", "Wed, 21 Oct 2015 07:28:00 GMT",
     "0", "2", "1.5", "8", "120", "-1", "nan", "inf"}

\* float(s): the parsed value, or ok = FALSE for ValueError
ParseFloat(s) ==
    CASE s = "0"   -> [ok |-> TRUE, v |-> Rat(0, 1)]
      [] s = "2"   -> [ok |-> TRUE, v |-> Rat(2, 1)]
      [] s = "1.5" -> [ok |-> TRUE, v |-> Rat(3, 2)]
      [] s = "8"   -> [ok |-> TRUE, v |-> Rat(8, 1)]
      [] s = "120" -> [ok |-> TRUE, v |-> Rat(120, 1)]
      [] s = "-1"  -> [ok |-> TRUE, v |-> Rat(-1, 1)]
      [] s = "nan" -> [ok |-> TRUE, v |-> NaN]
      [] s = "inf" -> [ok |-> TRUE, v |-> Inf]
      [] OTHER     -> [ok |-> FALSE, v |-> NaN]

\* truth value of resp.headers.get("Retry-After"): None and "" are false
Truthy(s) == s # NoHeader /\ s # ""

NoResp == [kind |-> "none", status |-> 0, retry_after |-> NoHeader]
Response(st, h) == [kind |-> "response", status |-> st, retry_after |-> h]
TransportError(k) == [kind |-> k, status |-> 0, retry_after |-> NoHeader]

TransportKinds == {"Timeout", "ConnectionError"}
RateStatuses == {429, 503}
OtherErrorStatuses == {400, 404, 500}
OkStatuses == {200}

\* everything one request can end in
AllOutcomes ==
    {Response(st, NoHeader) : st \in OkStatuses \cup OtherErrorStatuses}
        \cup {Response(st, h) : st \in RateStatuses, h \in RetryAfterHeaders}
        \cup {TransportError(k) : k \in TransportKinds}

\* the outcomes followed when the executor runs below a search
NestedOutcomes ==
    {Response(200, NoHeader), Response(500, NoHeader), Response(429, NoHeader),
     Response(503, "2"), TransportError("Timeout")}

\* the outcomes followed when the executor runs below fetch_report_data
ReportOutcomes ==
    {Response(200, NoHeader), Response(429, NoHeader), TransportError("Timeout")}

Outcomes(e) ==
    IF e = "_request_with_backoff" THEN AllOutcomes
    ELSE IF e = "fetch_report_data" THEN ReportOutcomes
    ELSE NestedOutcomes

\* a status check that lets server errors through
RaisesForStatus_ClientOnly(st) == st >= 400 /\ st < 500

\* a status check that raises for nothing
RaisesForStatus_Never(st) == FALSE

\* resp.raise_for_status() raises HTTPError
RaisesForStatus(st) == st >= 400 /\ st < 600

----------------------------------------------------------------------------
(* _request_with_backoff, data_fetcher.py:47-118 *)

\* min((BACKOFF_BASE ** k) * 2, BACKOFF_CAP)
BackoffWait(k) == PyMin(FMul(FPow(BACKOFF_BASE, k), 2), BACKOFF_CAP)

\* the 429/503 branch without the cap on the server's value
RateLimitWait_Uncapped(retry_after, a) ==
    IF Truthy(retry_after) /\ ParseFloat(retry_after).ok
    THEN ParseFloat(retry_after).v
    ELSE BackoffWait(a)

\* the 429/503 branch with the exponent of the except branch
RateLimitWait_NextExponent(retry_after, a) ==
    IF Truthy(retry_after) /\ ParseFloat(retry_after).ok
    THEN PyMin(ParseFloat(retry_after).v, BACKOFF_CAP)
    ELSE BackoffWait(a + 1)

\* wait_s of the 429/503 branch, lines 86-96
RateLimitWait(retry_after, a) ==
    IF Truthy(retry_after)
    THEN IF ParseFloat(retry_after).ok
         THEN PyMin(ParseFloat(retry_after).v, BACKOFF_CAP)
         ELSE BackoffWait(a)
    ELSE BackoffWait(a)

\* the except branch with the exponent of the 429/503 branch
TransportWait_SameExponent(a) == BackoffWait(a)

\* wait_s of the except branch, line 113
TransportWait(a) == BackoffWait(a + 1)

\* utils.bounded_sleep: what reaches time.sleep; it never raises
BoundedSleep(sec) == PyMax(Rat(0, 1), sec)

\* a loop that runs one iteration too many
LoopRange_OneMore == 0 .. MAX_RETRIES + 1

\* range(MAX_RETRIES + 1)
LoopRange == 0 .. MAX_RETRIES

\* a budget check that gives up one attempt early
BudgetSpent_OneEarly(a) == a >= MAX_RETRIES - 1

\* a budget check that never gives up
BudgetSpent_Never(a) == a > MAX_RETRIES

\* line 108
BudgetSpent(a) == a >= MAX_RETRIES

NoExc == [type |-> "none", status |-> 0, attempt |-> -1]
Exc(t, st, a) == [type |-> t, status |-> st, attempt |-> a]

\* the exception a failed attempt carries: HTTPError or the transport error
FailureOf(o, a) ==
    IF o.kind = "response" THEN Exc("HTTPError", o.status, a) ELSE Exc(o.kind, 0, a)

FailKind(o) ==
    IF o.kind # "response" THEN "transport"
    ELSE IF o.status \in RateStatuses THEN "rate" ELSE "other"

\* a call that inherits a spent retry from the call before it
StartCall_OneSpent ==
    /\ xpc' = "loop"
    /\ attempt' = 0
    /\ nreq' = 0
    /\ nwait' = 0
    /\ resp' = NoResp
    /\ wait_s' = Unbound
    /\ slept' = Unbound
    /\ exc' = NoExc
    /\ failed' = {}

\* the state of a fresh executor call
StartCall ==
    /\ xpc' = "loop"
    /\ attempt' = -1
    /\ nreq' = 0
    /\ nwait' = 0
    /\ resp' = NoResp
    /\ wait_s' = Unbound
    /\ slept' = Unbound
    /\ exc' = NoExc
    /\ failed' = {}

\* a caller invokes _request_with_backoff directly
Call ==
    /\ entry = "_request_with_backoff"
    /\ xpc \in {"idle", "returned", "raised"}
    /\ StartCall
    /\ UNCHANGED <<entry, api, BACKOFF_BASE, nhttp, pvars, svars, dvars, uvars>>

\* an executor that hands the last 429/503 response back once the loop is over
Continue_ReturnsLast(a) ==
    IF a + 1 \in LoopRange
    THEN xpc' = "loop" /\ exc' = exc
    ELSE xpc' = "returned" /\ exc' = exc

\* the end of an iteration that did not leave the function: the for loop takes
\* its next index, or is exhausted and line 118 raises
Continue(a) ==
    IF a + 1 \in LoopRange
    THEN xpc' = "loop" /\ exc' = exc
    ELSE xpc' = "raised" /\ exc' = Exc("RuntimeError", 0, a)

\* one iteration of the for loop, lines 79-115
Attempt ==
    /\ xpc = "loop"
    /\ attempt + 1 \in LoopRange
    /\ \E o \in Outcomes(entry) :
        LET a == attempt + 1 IN
        /\ attempt' = a
        /\ nreq' = nreq + 1
        /\ nhttp' = IF nhttp < 0 THEN nhttp ELSE nhttp + 1
        /\ resp' = o
        /\ IF o.kind = "response" /\ o.status \in RateStatuses
           THEN /\ wait_s' = RateLimitWait(o.retry_after, a)
                /\ slept' = BoundedSleep(wait_s')
                /\ nwait' = nwait + 1
                /\ failed' = failed \cup {FailKind(o)}
                /\ Continue(a)
           ELSE IF o.kind = "response" /\ ~RaisesForStatus(o.status)
           THEN /\ xpc' = "returned"
                /\ UNCHANGED <<wait_s, slept, nwait, failed, exc>>
           ELSE /\ failed' = failed \cup {FailKind(o)}
                /\ IF BudgetSpent(a)
                   THEN /\ xpc' = "raised"
                        /\ exc' = FailureOf(o, a)
                        /\ UNCHANGED <<wait_s, slept, nwait>>
                   ELSE /\ wait_s' = TransportWait(a)
                        /\ slept' = BoundedSleep(wait_s')
                        /\ nwait' = nwait + 1
                        /\ Continue(a)
    /\ UNCHANGED <<entry, api, BACKOFF_BASE, pvars, svars, dvars, uvars>>

----------------------------------------------------------------------------
(* _search_ids, data_fetcher.py:121-173 *)

IMin(a, b) == IF b < a THEN b ELSE a
IMax(a, b) == IF b > a THEN b ELSE a

\* the most items one page asks for, line 154
PageCap == 100

\* a page size without the upper clamp
PerPage_NoCap(m) == IMax(1, m)

\* per_page = min(max(1, max_items), 100)
PerPage(m) == IMin(IMax(1, m), PageCap)

\* a search that returns everything it accumulated
PySliceTo_Whole(s, n) == s

\* the slice s[:n] of a Python list, line 173
PySliceTo(s, n) ==
    IF n >= 0 THEN SubSeq(s, 1, IMin(n, Len(s)))
    ELSE SubSeq(s, 1, IMax(Len(s) + n, 0))

\* a loop that asks for one more page once max_items ids are there
NeedMore_Inclusive(s, m) == Len(s) <= m

\* the while condition, line 157
NeedMore(s, m) == Len(s) < m

\* the values of max_items the model runs a search with
MaxItemsValues == (-1 .. SmallMaxItems) \cup {PageCap + 1}

\* the lengths of the data list the server may answer a page request with:
\* empty, one element (short of the limit when it is above 1), the limit, one
\* beyond it
PageLens(limit) == {n \in {0, 1, limit, limit + 1} : n >= 0}

\* which elements of a page carry an "id": all, none, or the even positions
IdPatterns == {"all", "none", "even"}
HasId(pat, i) == pat = "all" \/ (pat = "even" /\ i % 2 = 0)

\* the page answers followed for a caller: below fetch_report_data a page is
\* empty, one element, full or one beyond the limit, with all ids or every
\* second one
PageLensFor(e, limit) ==
    IF e = "fetch_report_data" THEN {0, 1, limit, limit + 1} ELSE PageLens(limit)
IdPatternsFor(e) == IF e = "fetch_report_data" THEN {"all", "even"} ELSE IdPatterns

\* an API that answers every request as it likes, and one that holds `total`
\* elements for the query, carrying ids by `pat`, and answers a detail request
\* by `kind`
FreeApi == [fixed |-> FALSE, total |-> 0, pat |-> "all", kind |-> "exact"]
Dataset(n, pat, kind) == [fixed |-> TRUE, total |-> n, pat |-> pat, kind |-> kind]

\* the length of page p of a dataset of n elements served limit by limit
PageLenOf(n, p, limit) == IMax(0, IMin(limit, n - (p - 1) * limit))

\* element i of page p: the server numbers its elements page by page
Item(p, pat, i) ==
    IF HasId(pat, i) THEN [id |-> p * 1000 + i] ELSE [title |-> "untitled"]

\* the "data" list of a response body
PageData(p, len, pat) == [i \in 1 .. len |-> Item(p, pat, i)]

HasIdKey(item) == "id" \in DOMAIN item

\* a searcher that reads the id with item.get("id")
ExtractIds_KeepsPlaceholder(data) ==
    [i \in 1 .. Len(data) |-> IF HasIdKey(data[i]) THEN ToString(data[i].id) ELSE "None"]

\* a searcher that appends a page once more when the page took retries
ExtractIds_AgainAfterRetry(data) ==
    LET kept == SelectSeq(data, HasIdKey)
        got == [i \in 1 .. Len(kept) |-> ToString(kept[i].id)]
    IN  IF nwait > 0 THEN got \o got ELSE got

\* [str(item["id"]) for item in data if "id" in item], line 169
ExtractIds(data) ==
    LET kept == SelectSeq(data, HasIdKey)
    IN  [i \in 1 .. Len(kept) |-> ToString(kept[i].id)]

\* a search that takes no page for empty
NoData_Never(data) == FALSE

\* the bodies a 2xx response may carry: {"data": [...]}, text that is not
\* JSON, a JSON object without "data", a JSON value that is not an object
BodyShapes == {"data_list", "invalid_json", "no_data_key", "not_object"}

\* resp.json() raises JSONDecodeError; payload.get raises AttributeError on a
\* value that is no dict
PayloadError(shape) ==
    CASE shape = "invalid_json" -> "JSONDecodeError"
      [] shape = "not_object" -> "AttributeError"
      [] OTHER -> "none"

\* a decoding that insists on the "data" key
PayloadData_Strict(shape, lst) == lst

\* payload.get("data", []), lines 162 and 245
PayloadData(shape, lst) == IF shape = "data_list" THEN lst ELSE <<>>

\* a decoding failure is not an executor failure: it carries no attempt
ParseExc(shape) == Exc(PayloadError(shape), 200, -1)

\* the bodies the API may answer page p with
PagesOffered(a, e, p, limit) ==
    IF a.fixed
    THEN {[shape |-> "data_list", len |-> PageLenOf(a.total, p, limit), pat |-> a.pat]}
    ELSE {b \in [shape : BodyShapes, len : PageLensFor(e, limit), pat : IdPatternsFor(e)] :
            /\ b.len = 0 => b.pat = "all"
            /\ b.shape # "data_list" => b.len = 0}

\* `not data`, line 165
NoData(data) == data = <<>>

\* the while test of line 157: another page is requested through the
\* executor (lines 158-160), or the loop ends and line 173 returns
SearchLoop ==
    /\ spc = "while"
    /\ IF NeedMore(ids, max_items)
       THEN /\ page <= MaxPages
            /\ spc' = "await"
            /\ searchReqs' =
                   Append(searchReqs, [q |-> term, page |-> page, limit |-> per_page])
            /\ StartCall
            /\ UNCHANGED result
       ELSE /\ spc' = "done"
            /\ result' = PySliceTo(ids, max_items)
            /\ UNCHANGED <<searchReqs, xvars>>
    /\ UNCHANGED <<entry, api, BACKOFF_BASE, nhttp, pvars, term, max_items, per_page, page, ids, pageLog,
                   dvars, uvars>>

\* the executor returned a response: lines 161-170, the body being the
\* server's choice
SearchPage ==
    /\ spc = "await"
    /\ xpc = "returned"
    /\ \E b \in PagesOffered(api, entry, page, per_page) :
        LET shape == b.shape
            len == b.len
            data == PayloadData(shape, PageData(page, len, b.pat))
            got == ExtractIds(data)
        IN  /\ bodies' = Append(bodies, shape)
            /\ IF PayloadError(shape) # "none"
               THEN /\ spc' = "raised"
                    /\ parse_exc' = ParseExc(shape)
                    /\ UNCHANGED <<ids, page, result, pageLog>>
               ELSE /\ parse_exc' = parse_exc
                    /\ pageLog' = Append(pageLog, [len |-> Len(data), pat |-> b.pat, nids |-> Len(got)])
                    /\ IF NoData(data)
                       THEN /\ spc' = "done"
                            /\ result' = PySliceTo(ids, max_items)
                            /\ UNCHANGED <<ids, page>>
                       ELSE /\ ids' = ids \o got
                            /\ page' = page + 1
                            /\ spc' = "while"
                            /\ UNCHANGED result
    /\ xpc' = "idle"
    /\ attempt' = -1
    /\ nreq' = 0
    /\ nwait' = 0
    /\ resp' = NoResp
    /\ wait_s' = Unbound
    /\ slept' = Unbound
    /\ exc' = NoExc
    /\ failed' = {}
    /\ UNCHANGED <<entry, api, BACKOFF_BASE, nhttp, term, max_items, per_page, searchReqs, dvars, uvars>>

\* the executor raised: _search_ids has no handler, the exception leaves it
SearchFail ==
    /\ spc = "await"
    /\ xpc = "raised"
    /\ spc' = "raised"
    /\ UNCHANGED <<entry, api, BACKOFF_BASE, nhttp, pvars, xvars, term, max_items, per_page, page, ids,
                   result, searchReqs, pageLog, dvars, uvars>>

SearchOff ==
    /\ spc = "off"
    /\ term = ""
    /\ max_items = 0
    /\ per_page = 0
    /\ page = 0
    /\ ids = <<>>
    /\ result = <<>>
    /\ searchReqs = <<>>
    /\ pageLog = <<>>

ExecIdle ==
    /\ xpc = "idle"
    /\ attempt = -1
    /\ nreq = 0
    /\ nwait = 0
    /\ resp = NoResp
    /\ wait_s = Unbound
    /\ slept = Unbound
    /\ exc = NoExc
    /\ failed = {}

----------------------------------------------------------------------------
(* _chunk and _fetch_details, data_fetcher.py:176-247 *)

\* the batch size, line 240
ChunkSize == 50

\* a chunking that puts one id more into every chunk
Chunk_OneMore(lst, size) ==
    [j \in 1 .. (Len(lst) + size) \div (size + 1) |->
        SubSeq(lst, (j - 1) * (size + 1) + 1, IMin(j * (size + 1), Len(lst)))]

\* a chunking that hands the chunks out last first
Chunk_Reversed(lst, size) ==
    LET c == (Len(lst) + size - 1) \div size
    IN  [j \in 1 .. c |-> SubSeq(lst, (c - j) * size + 1, IMin((c - j + 1) * size, Len(lst)))]

\* _chunk: [lst[i:i + size] for i in range(0, len(lst), size)], line 195
Chunk(lst, size) ==
    [j \in 1 .. (Len(lst) + size - 1) \div size |->
        SubSeq(lst, (j - 1) * size + 1, IMin(j * size, Len(lst)))]

RECURSIVE Join(_)
\* ",".join(parts)
Join(parts) ==
    IF parts = <<>> THEN ""
    ELSE IF Len(parts) = 1 THEN parts[1]
    ELSE parts[1] \o "," \o Join(Tail(parts))

\* fields_csv, line 237
FieldsCsv(fs) == IF fs # <<>> THEN Join(fs) ELSE "id,title,artist_title,date_display"

\* `not ids`, line 233
NothingToFetch(idlist) == idlist = <<>>

\* the id lists the model calls _fetch_details with: n ids "1" .. "n"
MkIds(n) == [i \in 1 .. n |-> ToString(i)]
DetailIdLists ==
    {MkIds(n) : n \in {0, 1, 2, ChunkSize, ChunkSize + 1, 2 * ChunkSize + 1}}
FieldLists == {<<>>, <<"id", "title">>}

\* how the server answers a detail request: one record per id, the first id
\* left out, one record too many, or no record at all
DetailAnswers == {"exact", "short", "extra", "empty"}

\* a record of the server, rendered for the fields asked for
Record(idstr, csv) == [id |-> idstr, fields |-> csv]

\* the "data" list of a detail response
DetailData(batch, csv, kind) ==
    LET all == [i \in 1 .. Len(batch) |-> Record(batch[i], csv)]
    IN  CASE kind = "exact" -> all
          [] kind = "short" -> Tail(all)
          [] kind = "extra" -> Append(all, Record("unasked", csv))
          [] kind = "empty" -> <<>>

\* the bodies the API may answer a detail request with
AnswersOffered(a) ==
    IF a.fixed
    THEN {[shape |-> "data_list", kind |-> a.kind]}
    ELSE {b \in [shape : BodyShapes, kind : DetailAnswers] :
            b.shape # "data_list" => b.kind = "empty"}

\* the locals of a finished executor call are gone
EndCall ==
    /\ xpc' = "idle"
    /\ attempt' = -1
    /\ nreq' = 0
    /\ nwait' = 0
    /\ resp' = NoResp
    /\ wait_s' = Unbound
    /\ slept' = Unbound
    /\ exc' = NoExc
    /\ failed' = {}

\* a fetcher without the early return whose chunking hands out one (empty)
\* chunk for no ids
DetailsBegin_Unguarded ==
    /\ dpc = "start"
    /\ dpc' = "for"
    /\ batches' = IF dids = <<>> THEN <<dids>> ELSE Chunk(dids, ChunkSize)
    /\ results' = <<>>
    /\ bi' = 1
    /\ UNCHANGED <<entry, api, BACKOFF_BASE, nhttp, pvars, xvars, svars, dids, fields, detailReqs, respLog, uvars>>

\* lines 232-240: the early return for no ids, or the chunking
DetailsBegin ==
    /\ dpc = "start"
    /\ IF NothingToFetch(dids)
       THEN dpc' = "done" /\ UNCHANGED batches
       ELSE dpc' = "for" /\ batches' = Chunk(dids, ChunkSize)
    /\ results' = <<>>
    /\ bi' = 1
    /\ UNCHANGED <<entry, api, BACKOFF_BASE, nhttp, pvars, xvars, svars, dids, fields, detailReqs, respLog, uvars>>

\* the for statement of line 240: the next batch is requested through the
\* executor (lines 241-243), or the loop is over and line 247 returns
DetailsLoop ==
    /\ dpc = "for"
    /\ IF bi <= Len(batches)
       THEN /\ dpc' = "await"
            /\ detailReqs' =
                   Append(detailReqs, [ids |-> Join(batches[bi]), fields |-> FieldsCsv(fields)])
            /\ StartCall
       ELSE /\ dpc' = "done"
            /\ UNCHANGED <<detailReqs, xvars>>
    /\ UNCHANGED <<entry, api, BACKOFF_BASE, nhttp, pvars, svars, dids, fields, batches, bi, results, respLog, uvars>>

\* the executor returned a response: lines 244-245, the body being the
\* server's choice
DetailsChunk ==
    /\ dpc = "await"
    /\ xpc = "returned"
    /\ \E b \in AnswersOffered(api) :
        LET shape == b.shape
            data == PayloadData(shape, DetailData(batches[bi], FieldsCsv(fields), b.kind))
        IN  /\ bodies' = Append(bodies, shape)
            /\ IF PayloadError(shape) # "none"
               THEN /\ dpc' = "raised"
                    /\ parse_exc' = ParseExc(shape)
                    /\ UNCHANGED <<results, respLog, bi>>
               ELSE /\ parse_exc' = parse_exc
                    /\ results' = results \o data
                    /\ respLog' = Append(respLog, data)
                    /\ bi' = bi + 1
                    /\ dpc' = "for"
    /\ EndCall
    /\ UNCHANGED <<entry, api, BACKOFF_BASE, nhttp, svars, dids, fields, batches, detailReqs, uvars>>

\* the executor raised: _fetch_details has no handler, the exception leaves it
DetailsFail ==
    /\ dpc = "await"
    /\ xpc = "raised"
    /\ dpc' = "raised"
    /\ UNCHANGED <<entry, api, BACKOFF_BASE, nhttp, pvars, xvars, svars, dids, fields, batches, bi,
                   results, detailReqs, respLog, uvars>>

DetailsOff ==
    /\ dpc = "off"
    /\ dids = <<>>
    /\ fields = <<>>
    /\ batches = <<>>
    /\ bi = 0
    /\ results = <<>>
    /\ detailReqs = <<>>
    /\ respLog = <<>>

----------------------------------------------------------------------------
(* fetch_report_data, data_fetcher.py:250-328 *)

IntVal(n) == [t |-> "int", v |-> n]
StrVal(x) == [t |-> "str", v |-> x]

\* the values Python takes for false: 0 and ""
FalsyVal(x) == (x.t = "int" /\ x.v = 0) \/ (x.t = "str" /\ x.v = "")

\* int(v): the integer, or ok = FALSE for ValueError
PyInt(x) ==
    IF x.t = "int" THEN [ok |-> TRUE, v |-> x.v]
    ELSE IF x.v = "2" THEN [ok |-> TRUE, v |-> 2]
    ELSE [ok |-> FALSE, v |-> 0]

DefaultFields == <<"id", "title", "artist_title", "date_display">>
DefaultMaxItems == 25

\* an assembler that takes a given name only
NameOf_NoDefault(r) == IF "name" \in DOMAIN r THEN r.name ELSE ""

\* report.get("name") or "report", line 303
NameOf(r) == IF "name" \in DOMAIN r /\ r.name # "" THEN r.name ELSE "report"

\* report.get("search") or "", line 304
SearchOf(r) == IF "search" \in DOMAIN r /\ r.search # "" THEN r.search ELSE ""

\* report.get("fields") or [...], line 305
FieldsOf(r) == IF "fields" \in DOMAIN r /\ r.fields # <<>> THEN r.fields ELSE DefaultFields

\* report.get("max_items") or 25, line 306 (before int())
MaxItemsOf(r) ==
    IF "max_items" \in DOMAIN r /\ ~FalsyVal(r.max_items)
    THEN r.max_items
    ELSE IntVal(DefaultMaxItems)

\* the report configurations the model runs fetch_report_data with
ReportInputs ==
    { [x \in {} |-> 0],
      [name |-> "peace", search |-> "peace", fields |-> <<"id", "title">>,
       max_items |-> IntVal(3)],
      [name |-> "", search |-> "", fields |-> <<>>, max_items |-> IntVal(0)],
      [search |-> "cats", max_items |-> StrVal("2")],
      [name |-> "one", fields |-> <<"id">>, max_items |-> IntVal(1)],
      [name |-> "big", search |-> "art", max_items |-> IntVal(ChunkSize + 1)],
      [name |-> "bad", max_items |-> StrVal("many")] }

NoOut == [none |-> TRUE]

\* a count of the ids asked for instead of the records received
Count_Requested(items) == Len(dids)

\* "count": len(items), line 327
Count(items) == Len(items)

\* an assembler that replaces the failure it lets out
Raised_Replaced(e) == Exc("RuntimeError", 0, -1)

\* the exception leaving fetch_report_data: there is no handler, it is the
\* one the callee raised
Raised(e) == e

\* an assembler that writes the defaults it applied back into its argument
ReportBegin_StoresDefaults ==
    /\ rpc = "start"
    /\ name' = NameOf(report)
    /\ search' = SearchOf(report)
    /\ rfields' = FieldsOf(report)
    /\ IF PyInt(MaxItemsOf(report)).ok
       THEN /\ rmax_items' = PyInt(MaxItemsOf(report)).v
            /\ report' = [name |-> name', search |-> search', fields |-> rfields',
                          max_items |-> IntVal(rmax_items')]
            /\ rpc' = "search"
            /\ rexc' = rexc
            /\ spc' = "while"
            /\ term' = search'
            /\ max_items' = rmax_items'
            /\ per_page' = PerPage(max_items')
            /\ page' = 1
            /\ UNCHANGED <<ids, result, searchReqs, pageLog>>
       ELSE /\ rpc' = "raised"
            /\ rexc' = Exc("ValueError", 0, -1)
            /\ UNCHANGED <<rmax_items, svars, report>>
    /\ UNCHANGED <<entry, api, BACKOFF_BASE, nhttp, pvars, xvars, dvars, out, cvars, bvars>>

\* lines 303-311: the locals, then the call of _search_ids
ReportBegin ==
    /\ rpc = "start"
    /\ name' = NameOf(report)
    /\ search' = SearchOf(report)
    /\ rfields' = FieldsOf(report)
    /\ IF PyInt(MaxItemsOf(report)).ok
       THEN /\ rmax_items' = PyInt(MaxItemsOf(report)).v
            /\ rpc' = "search"
            /\ rexc' = rexc
            /\ spc' = "while"
            /\ term' = search'
            /\ max_items' = rmax_items'
            /\ per_page' = PerPage(max_items')
            /\ page' = 1
            /\ UNCHANGED <<ids, result, searchReqs, pageLog>>
       ELSE /\ rpc' = "raised"
            /\ rexc' = Exc("ValueError", 0, -1)
            /\ UNCHANGED <<rmax_items, svars>>
    /\ UNCHANGED <<entry, api, BACKOFF_BASE, nhttp, pvars, xvars, dvars, report, out, cvars, bvars>>

\* _search_ids returned: line 315 calls _fetch_details(ids, fields)
ReportSearchDone ==
    /\ rpc = "search"
    /\ spc = "done"
    /\ rpc' = "details"
    /\ dpc' = "start"
    /\ dids' = result
    /\ fields' = rfields
    /\ UNCHANGED <<entry, api, BACKOFF_BASE, nhttp, pvars, xvars, svars, batches, bi, results, detailReqs,
                   respLog, report, name, search, rfields, rmax_items, out, rexc, cvars, bvars>>

\* an assembler that cuts the items to max_items
ReportReturn_Truncated ==
    /\ rpc = "details"
    /\ dpc = "done"
    /\ rpc' = "done"
    /\ out' = [report |-> [name |-> name, search |-> search, fields |-> rfields,
                           max_items |-> rmax_items],
               items |-> PySliceTo(results, rmax_items),
               count |-> Count(PySliceTo(results, rmax_items))]
    /\ UNCHANGED <<entry, api, BACKOFF_BASE, nhttp, pvars, xvars, svars, dvars, report, name, search,
                   rfields, rmax_items, rexc, cvars, bvars>>

\* _fetch_details returned: lines 319-328 build the result
ReportReturn ==
    /\ rpc = "details"
    /\ dpc = "done"
    /\ rpc' = "done"
    /\ out' = [report |-> [name |-> name, search |-> search, fields |-> rfields,
                           max_items |-> rmax_items],
               items |-> results,
               count |-> Count(results)]
    /\ UNCHANGED <<entry, api, BACKOFF_BASE, nhttp, pvars, xvars, svars, dvars, report, name, search,
                   rfields, rmax_items, rexc, cvars, bvars>>

\* a callee raised: fetch_report_data has no handler, the exception leaves it
ReportFail ==
    /\ \/ rpc = "search" /\ spc = "raised"
       \/ rpc = "details" /\ dpc = "raised"
    /\ rpc' = "raised"
    /\ rexc' = Raised(IF parse_exc # NoExc THEN parse_exc ELSE exc)
    /\ UNCHANGED <<entry, api, BACKOFF_BASE, nhttp, pvars, xvars, svars, dvars, report, name, search,
                   rfields, rmax_items, out, cvars, bvars>>

ReportOff ==
    /\ rpc = "off"
    /\ report = [x \in {} |-> 0]
    /\ name = ""
    /\ search = ""
    /\ rfields = <<>>
    /\ rmax_items = 0
    /\ out = NoOut
    /\ rexc = NoExc

----------------------------------------------------------------------------
(* main of src/src/core/cli.py: the batch driver *)

\* reports in a configuration the model runs main with
MaxReports == 2

\* a str name as the list of its characters, and an int name
Chars(cs) == [t |-> "str", v |-> cs, n |-> 0]
Number(n) == [t |-> "int", v |-> <<>>, n |-> n]

DefaultName == Chars(<<"r", "e", "p", "o", "r", "t">>)

\* the truth value Python gives a name read from YAML
CliTruthy(x) == (x.t = "int" /\ x.n # 0) \/ (x.t = "str" /\ Len(x.v) > 0)

\* rpt.get("name") or "report", line 110
CliNameOf(rpt) == IF "name" \in DOMAIN rpt /\ CliTruthy(rpt.name) THEN rpt.name ELSE DefaultName

\* c.isalnum() or c in ("-", "_", "."), for the characters the model uses
SafeChar(c) == c \in {"a", "b", "e", "o", "p", "r", "t", "4", "-", "_", "."}

\* str.strip()
RECURSIVE Strip(_)
Strip(cs) ==
    IF cs = <<>> THEN cs
    ELSE IF Head(cs) = " " THEN Strip(Tail(cs))
    ELSE IF cs[Len(cs)] = " " THEN Strip(SubSeq(cs, 1, Len(cs) - 1))
    ELSE cs

\* sanitize_filename(name) for a str
SanitizeFilename(cs) == Strip(SelectSeq(cs, SafeChar))

\* the entries of a reports list: no name, a name with unsafe characters, and
\* a name YAML reads as an integer
CliReports ==
    { [search |-> "peace"],
      [name |-> Chars(<<"a", "/", "b", " ">>), search |-> "art"],
      [name |-> Number(4), search |-> "cats"] }

\* what load_queries finds: no valid file, or a reports list
NoConfig == [ok |-> FALSE, reports |-> <<>>]
Config(rs) == [ok |-> TRUE, reports |-> rs]
CliConfigs ==
    {NoConfig} \cup
    {Config(rs) : rs \in UNION {[1 .. n -> CliReports] : n \in 0 .. MaxReports}}

\* --dry-run, --max-runtime and MAX_RUNTIME
CliOptions ==
    { [dry_run |-> FALSE, max_runtime |-> 0, env |-> 0],
      [dry_run |-> TRUE, max_runtime |-> 0, env |-> 0],
      [dry_run |-> FALSE, max_runtime |-> 3, env |-> 1],
      [dry_run |-> FALSE, max_runtime |-> 0, env |-> 1] }

\* seconds one fetch_report_data call may take
Durations == {0, 2}

\* the count of the data fetch_report_data returns to main
FetchCounts == {2}

NoData_ == [none |-> TRUE]
NoJob == [none |-> TRUE]

\* max_runtime or max_runtime_env, line 94
EffectiveRuntime(opt, env) == IF opt # 0 THEN opt ELSE env

\* a budget test that never fires
OverBudget_Never(limit, t, t0) == FALSE

\* max_runtime and (time.time() - start_ts) > max_runtime, line 150
OverBudget(limit, t, t0) == limit # 0 /\ (t - t0) > limit

File(stem, ext) == [stem |-> stem, ext |-> ext]

SummaryFile == File(<<"s", "u", "m", "m", "a", "r", "y">>, "json")

OkEntry == [name |-> cname, count |-> fetched.count,
            json |-> File(safe_name, "json"), pdf |-> File(safe_name, "pdf"),
            status |-> "ok"]

FailedEntry(stage) == [name |-> cname, status |-> "failed", error |-> stage]

\* a handler that records the failure without counting it
Handle_Uncounted(stage) ==
    /\ failures' = failures
    /\ summary' = Append(summary, FailedEntry(stage))
    /\ cpc' = "check"

\* a handler that gives the batch up at the first failed report
Handle_Abort(stage) ==
    /\ failures' = failures + 1
    /\ summary' = Append(summary, FailedEntry(stage))
    /\ cpc' = "summary"

\* except Exception, lines 138-147: the report is counted and recorded as
\* failed, the loop goes on with the budget check
Handle(stage) ==
    /\ failures' = failures + 1
    /\ summary' = Append(summary, FailedEntry(stage))
    /\ cpc' = "check"

\* lines 89-106: the counters, the limit, the configuration
CliLoad ==
    /\ cpc = "load"
    /\ max_runtime' = EffectiveRuntime(max_runtime, MAX_RUNTIME)
    /\ start_ts' = now
    /\ IF config.ok /\ config.reports # <<>>
       THEN /\ reports' = config.reports
            /\ cpc' = "for"
            /\ exit_code' = exit_code
       ELSE /\ reports' = config.reports
            /\ cpc' = "exited"
            /\ exit_code' = 1
    /\ UNCHANGED <<config, dry_run, MAX_RUNTIME, now, rpt_i, cname, safe_name, fetched,
                   summary, failures, files, emails, job_summary, cexc>>

\* lines 109-111: the next report, its name and file name; a name that is
\* not a str makes sanitize_filename raise outside the try statement
CliFor ==
    /\ cpc = "for"
    /\ IF rpt_i = Len(reports)
       THEN /\ cpc' = "summary"
            /\ UNCHANGED <<rpt_i, cname, safe_name, cexc, exit_code>>
       ELSE /\ rpt_i' = rpt_i + 1
            /\ cname' = CliNameOf(reports[rpt_i'])
            /\ IF cname'.t = "str"
               THEN /\ safe_name' = SanitizeFilename(cname'.v)
                    /\ cpc' = "fetch"
                    /\ UNCHANGED <<cexc, exit_code>>
               ELSE /\ cpc' = "crashed"
                    /\ cexc' = "TypeError"
                    /\ exit_code' = 1
                    /\ UNCHANGED safe_name
    /\ UNCHANGED <<config, dry_run, max_runtime, MAX_RUNTIME, now, start_ts, reports,
                   fetched, summary, failures, files, emails, job_summary>>

\* line 115: fetch_report_data returns the data or raises
CliFetch ==
    /\ cpc = "fetch"
    /\ \E d \in Durations : now' = now + d
    /\ \/ /\ \E c \in FetchCounts : fetched' = [count |-> c]
          /\ cpc' = "write_json"
          /\ UNCHANGED <<summary, failures>>
       \/ /\ Handle("fetch_report_data")
          /\ UNCHANGED fetched
    /\ UNCHANGED <<config, dry_run, max_runtime, MAX_RUNTIME, start_ts, reports, rpt_i,
                   cname, safe_name, files, emails, job_summary, exit_code, cexc>>

\* lines 118-119: the raw data is written, or write_json raises
CliWriteJson ==
    /\ cpc = "write_json"
    /\ \/ /\ files' = files \cup {File(safe_name, "json")}
          /\ cpc' = "render_pdf"
          /\ UNCHANGED <<summary, failures>>
       \/ /\ Handle("write_json")
          /\ UNCHANGED files
    /\ UNCHANGED <<config, dry_run, max_runtime, MAX_RUNTIME, now, start_ts, reports, rpt_i,
                   cname, safe_name, fetched, emails, job_summary, exit_code, cexc>>

\* lines 122-123: the PDF is rendered, or render_pdf raises
CliRenderPdf ==
    /\ cpc = "render_pdf"
    /\ \/ /\ files' = files \cup {File(safe_name, "pdf")}
          /\ cpc' = "send_email"
          /\ UNCHANGED <<summary, failures>>
       \/ /\ Handle("render_pdf")
          /\ UNCHANGED files
    /\ UNCHANGED <<config, dry_run, max_runtime, MAX_RUNTIME, now, start_ts, reports, rpt_i,
                   cname, safe_name, fetched, emails, job_summary, exit_code, cexc>>

\* a driver that sends the email in a dry run too
CliSendEmail_IgnoresDryRun ==
    /\ cpc = "send_email"
    /\ \/ /\ emails' = Append(emails, File(safe_name, "pdf"))
          /\ summary' = Append(summary, OkEntry)
          /\ cpc' = "check"
          /\ UNCHANGED failures
       \/ /\ Handle("send_email")
          /\ UNCHANGED emails
    /\ UNCHANGED <<config, dry_run, max_runtime, MAX_RUNTIME, now, start_ts, reports, rpt_i,
                   cname, safe_name, fetched, files, job_summary, exit_code, cexc>>

\* lines 126-136: the email unless dry_run, then the ok entry
CliSendEmail ==
    /\ cpc = "send_email"
    /\ \/ /\ emails' = IF dry_run THEN emails ELSE Append(emails, File(safe_name, "pdf"))
          /\ summary' = Append(summary, OkEntry)
          /\ cpc' = "check"
          /\ UNCHANGED failures
       \/ /\ ~dry_run
          /\ Handle("send_email")
          /\ UNCHANGED emails
    /\ UNCHANGED <<config, dry_run, max_runtime, MAX_RUNTIME, now, start_ts, reports, rpt_i,
                   cname, safe_name, fetched, files, job_summary, exit_code, cexc>>

\* lines 150-152: the runtime limit, checked after the report
CliCheck ==
    /\ cpc = "check"
    /\ cpc' = IF OverBudget(max_runtime, now, start_ts) THEN "summary" ELSE "for"
    /\ UNCHANGED <<config, dry_run, max_runtime, MAX_RUNTIME, now, start_ts, reports, rpt_i,
                   cname, safe_name, fetched, summary, failures, files, emails,
                   job_summary, exit_code, cexc>>

\* sum(1 for s in summary if s.get("status") == st)
CountStatus(sm, st) == Cardinality({i \in 1 .. Len(sm) : sm[i].status = st})

\* lines 155-163: the job summary and summary.json; write_json may raise here
\* as well, and nothing catches it
CliSummary ==
    /\ cpc = "summary"
    /\ job_summary' = [dry_run |-> dry_run,
                       reports_total |-> Len(reports),
                       reports_ok |-> CountStatus(summary, "ok"),
                       reports_failed |-> CountStatus(summary, "failed"),
                       reports |-> summary]
    /\ \/ /\ files' = files \cup {SummaryFile}
          /\ cpc' = "exit"
          /\ UNCHANGED <<cexc, exit_code>>
       \/ /\ cpc' = "crashed"
          /\ cexc' = "OSError"
          /\ exit_code' = 1
          /\ UNCHANGED files
    /\ UNCHANGED <<config, dry_run, max_runtime, MAX_RUNTIME, now, start_ts, reports, rpt_i,
                   cname, safe_name, fetched, summary, failures, emails>>

\* a driver that always ends with status 0
CliExit_AlwaysZero ==
    /\ cpc = "exit"
    /\ cpc' = "exited"
    /\ exit_code' = 0
    /\ UNCHANGED <<config, dry_run, max_runtime, MAX_RUNTIME, now, start_ts, reports, rpt_i,
                   cname, safe_name, fetched, summary, failures, files, emails,
                   job_summary, cexc>>

\* lines 169-170: sys.exit(1) if failures, else main returns
CliExit ==
    /\ cpc = "exit"
    /\ cpc' = "exited"
    /\ exit_code' = IF failures # 0 THEN 1 ELSE 0
    /\ UNCHANGED <<config, dry_run, max_runtime, MAX_RUNTIME, now, start_ts, reports, rpt_i,
                   cname, safe_name, fetched, summary, failures, files, emails,
                   job_summary, cexc>>

\* the locals of main before line 89
CliLocals ==
    /\ now = 0
    /\ start_ts = 0
    /\ reports = <<>>
    /\ rpt_i = 0
    /\ cname = Chars(<<>>)
    /\ safe_name = <<>>
    /\ fetched = NoData_
    /\ summary = <<>>
    /\ failures = 0
    /\ files = {}
    /\ emails = <<>>
    /\ job_summary = NoJob
    /\ exit_code = -1
    /\ cexc = ""

CliOff ==
    /\ cpc = "off"
    /\ config = NoConfig
    /\ dry_run = FALSE
    /\ max_runtime = 0
    /\ MAX_RUNTIME = 0
    /\ CliLocals

----------------------------------------------------------------------------
(* bounded_sleep of src/src/utils/utils.py *)

\* largest numerator of the durations the model calls bounded_sleep with
MaxNum == 12

\* an argument that is not a number (None)
NoneArg == Rat(0, -2)

IsInf(x) == x.d = 0 /\ x.n > 0
IsNegative(x) == FLt(x, Rat(0, 1))

\* the durations: n/1 and n/2, nan (0/0), inf (n/0, n > 0), -inf (n/0, n < 0), None
SleepDurations == {Rat(n, d) : n \in -MaxNum .. MaxNum, d \in 0 .. 2} \cup {NoneArg}

\* max(0.0, seconds) raises TypeError when seconds cannot be compared
MaxError(x) == IF x = NoneArg THEN "TypeError" ELSE "none"

\* time.sleep(x): ValueError for a negative length or nan, OverflowError for a
\* length no timestamp can hold
TimeSleepError(x) ==
    IF IsNaN(x) \/ IsNegative(x) THEN "ValueError"
    ELSE IF IsInf(x) THEN "OverflowError"
    ELSE "none"

\* a handler that catches nothing
Swallows_Nothing(e) == FALSE

\* except Exception, line 482: every exception max() or time.sleep raises
Swallows(e) == e \in {"TypeError", "ValueError", "OverflowError"}

\* a caller invokes bounded_sleep(seconds)
SleepCall ==
    /\ bpc \in {"idle", "returned", "raised"}
    /\ bpc' = "called"
    /\ seconds' \in SleepDurations
    /\ sleep_arg' = Unbound
    /\ slept_for' = Rat(0, 1)
    /\ swallowed' = "none"
    /\ UNCHANGED <<entry, api, BACKOFF_BASE, nhttp, pvars, xvars, svars, dvars, rvars, cvars>>

\* lines 480-483: the clamp, the sleep, the handler
SleepRun ==
    /\ bpc = "called"
    /\ LET e == IF MaxError(seconds) # "none" THEN MaxError(seconds)
                ELSE TimeSleepError(BoundedSleep(seconds))
       IN  /\ sleep_arg' = IF MaxError(seconds) # "none" THEN Unbound ELSE BoundedSleep(seconds)
           /\ slept_for' = IF e = "none" THEN BoundedSleep(seconds) ELSE Rat(0, 1)
           /\ IF e = "none" THEN bpc' = "returned" /\ swallowed' = "none"
              ELSE IF Swallows(e) THEN bpc' = "returned" /\ swallowed' = e
              ELSE bpc' = "raised" /\ swallowed' = "none"
    /\ UNCHANGED <<entry, api, BACKOFF_BASE, nhttp, pvars, xvars, svars, dvars, rvars, cvars, seconds>>

SleepOff ==
    /\ bpc = "off"
    /\ seconds = Unbound
    /\ sleep_arg = Unbound
    /\ slept_for = Rat(0, 1)
    /\ swallowed = "none"

----------------------------------------------------------------------------
(* Specifications *)

InitBackoff ==
    /\ entry = "_request_with_backoff"
    /\ BACKOFF_BASE \in BackoffBases
    /\ ExecIdle
    /\ bodies = <<>>
    /\ parse_exc = NoExc
    /\ nhttp = -1
    /\ api = FreeApi
    /\ SearchOff
    /\ DetailsOff
    /\ ReportOff
    /\ CliOff
    /\ SleepOff

NextBackoff == Call \/ Attempt

\* one caller using the executor directly, call after call
SpecBackoff == InitBackoff /\ [][NextBackoff]_vars

\* _search_ids(term, max_items) after lines 151-154
InitSearch ==
    /\ entry = "_search_ids"
    /\ BACKOFF_BASE = DefaultBackoffBase
    /\ ExecIdle
    /\ bodies = <<>>
    /\ parse_exc = NoExc
    /\ nhttp = -1
    /\ api = FreeApi
    /\ spc = "while"
    /\ term = "peace"
    /\ max_items \in MaxItemsValues
    /\ per_page = PerPage(max_items)
    /\ page = 1
    /\ ids = <<>>
    /\ result = <<>>
    /\ searchReqs = <<>>
    /\ pageLog = <<>>
    /\ DetailsOff
    /\ ReportOff
    /\ CliOff
    /\ SleepOff

NextSearch == SearchLoop \/ Attempt \/ SearchPage \/ SearchFail

\* one call of _search_ids, every page fetched through the executor
SpecSearch == InitSearch /\ [][NextSearch]_vars

\* _fetch_details(ids, fields) on entry
InitDetails ==
    /\ entry = "_fetch_details"
    /\ BACKOFF_BASE = DefaultBackoffBase
    /\ ExecIdle
    /\ bodies = <<>>
    /\ parse_exc = NoExc
    /\ nhttp = -1
    /\ api = FreeApi
    /\ SearchOff
    /\ dpc = "start"
    /\ dids \in DetailIdLists
    /\ fields \in FieldLists
    /\ batches = <<>>
    /\ bi = 0
    /\ results = <<>>
    /\ detailReqs = <<>>
    /\ respLog = <<>>
    /\ ReportOff
    /\ CliOff
    /\ SleepOff

NextDetails == DetailsBegin \/ DetailsLoop \/ Attempt \/ DetailsChunk \/ DetailsFail

\* one call of _fetch_details, every batch fetched through the executor
SpecDetails == InitDetails /\ [][NextDetails]_vars

\* either stage on entry
InitStages == InitSearch \/ InitDetails

NextStages == NextSearch \/ NextDetails

\* one call of _search_ids or of _fetch_details: the two callers of the
\* executor, each reading the bodies of the responses it is handed
SpecStages == InitStages /\ [][NextStages]_vars

\* fetch_report_data(report) on entry
InitReport ==
    /\ entry = "fetch_report_data"
    /\ BACKOFF_BASE = DefaultBackoffBase
    /\ ExecIdle
    /\ bodies = <<>>
    /\ parse_exc = NoExc
    /\ nhttp = -1
    /\ api = FreeApi
    /\ SearchOff
    /\ DetailsOff
    /\ rpc = "start"
    /\ report \in ReportInputs
    /\ name = ""
    /\ search = ""
    /\ rfields = <<>>
    /\ rmax_items = 0
    /\ out = NoOut
    /\ rexc = NoExc
    /\ CliOff
    /\ SleepOff

NextReport ==
    \/ ReportBegin
    \/ SearchLoop
    \/ SearchPage
    \/ SearchFail
    \/ ReportSearchDone
    \/ DetailsBegin
    \/ DetailsLoop
    \/ DetailsChunk
    \/ DetailsFail
    \/ Attempt
    \/ ReportReturn
    \/ ReportFail

\* one call of fetch_report_data: the search, then the detail fetch
SpecReport == InitReport /\ [][NextReport]_vars

\* the datasets the model lets the API hold
DatasetSizes == {0, 2, 5, ChunkSize + 2}
Datasets == {Dataset(n, pat, kind) : n \in DatasetSizes, pat \in {"all", "even"},
                                     kind \in {"exact", "empty"}}

\* fetch_report_data(report) on entry, against an API with a fixed dataset;
\* the HTTP requests are counted
InitDataset ==
    /\ entry = "fetch_report_data"
    /\ BACKOFF_BASE = DefaultBackoffBase
    /\ ExecIdle
    /\ bodies = <<>>
    /\ parse_exc = NoExc
    /\ nhttp = 0
    /\ api \in Datasets
    /\ SearchOff
    /\ DetailsOff
    /\ rpc = "start"
    /\ report \in ReportInputs
    /\ name = ""
    /\ search = ""
    /\ rfields = <<>>
    /\ rmax_items = 0
    /\ out = NoOut
    /\ rexc = NoExc
    /\ CliOff
    /\ SleepOff

\* one call of fetch_report_data whose transient failures are the only choice
SpecDataset == InitDataset /\ [][NextReport]_vars

\* main(config, out, dry_run, max_runtime) on entry
InitCli ==
    /\ entry = "main"
    /\ BACKOFF_BASE = DefaultBackoffBase
    /\ ExecIdle
    /\ bodies = <<>>
    /\ parse_exc = NoExc
    /\ nhttp = -1
    /\ api = FreeApi
    /\ SearchOff
    /\ DetailsOff
    /\ ReportOff
    /\ cpc = "load"
    /\ config \in CliConfigs
    /\ \E o \in CliOptions :
        /\ dry_run = o.dry_run
        /\ max_runtime = o.max_runtime
        /\ MAX_RUNTIME = o.env
    /\ CliLocals
    /\ SleepOff

NextCli ==
    \/ CliLoad
    \/ CliFor
    \/ CliFetch
    \/ CliWriteJson
    \/ CliRenderPdf
    \/ CliSendEmail
    \/ CliCheck
    \/ CliSummary
    \/ CliExit

\* one run of main; fetch_report_data is taken by its outcome
SpecCli ==
    InitCli /\ [][NextCli /\ UNCHANGED <<entry, api, BACKOFF_BASE, nhttp, pvars, xvars, svars, dvars, rvars, bvars>>]_vars

\* bounded_sleep(seconds), call after call
InitSleep ==
    /\ entry = "bounded_sleep"
    /\ BACKOFF_BASE = DefaultBackoffBase
    /\ ExecIdle
    /\ bodies = <<>>
    /\ parse_exc = NoExc
    /\ nhttp = -1
    /\ api = FreeApi
    /\ SearchOff
    /\ DetailsOff
    /\ ReportOff
    /\ CliOff
    /\ bpc = "idle"
    /\ seconds = Unbound
    /\ sleep_arg = Unbound
    /\ slept_for = Rat(0, 1)
    /\ swallowed = "none"

NextSleep == SleepCall \/ SleepRun

SpecSleep == InitSleep /\ [][NextSleep]_vars

----------------------------------------------------------------------------
(* Properties of _request_with_backoff, checked under SpecBackoff *)

\* equality and minimum of two floats that are not nan, as numbers
FEq(a, b) == ~IsNaN(a) /\ ~IsNaN(b) /\ a.n * b.d = b.n * a.d
MathMin(a, b) == IF a.n * b.d <= b.n * a.d THEN a ELSE b

\* 2 * BACKOFF_BASE^k, capped
ExpectedBackoff(k) ==
    MathMin(Rat(2 * IntPow(BACKOFF_BASE.n, k), IntPow(BACKOFF_BASE.d, k)), Rat(8, 1))

LastIsRate == resp.kind = "response" /\ resp.status \in {429, 503}
LastIsOtherError ==
    resp.kind = "response" /\ resp.status \notin {429, 503} /\ resp.status >= 400
LastIsTransport == resp.kind \in {"Timeout", "ConnectionError"}
LastIsSuccess == resp.kind = "response" /\ resp.status < 400

\* C1: an attempt that returns an error status other than 429/503 raises that
\* error on the same attempt, with no wait and no further request.
C1_OtherStatusRaisesAtOnce ==
    LastIsOtherError =>
        /\ xpc = "raised"
        /\ exc = Exc("HTTPError", resp.status, attempt)
        /\ nwait < nreq

\* C2: one executor call issues at most MAX_RETRIES + 1 HTTP requests, whatever
\* the outcomes are.
C2_AtMostBudgetRequests == nreq <= MAX_RETRIES + 1

C2_Witness == nreq = MAX_RETRIES + 1 /\ failed = {"rate", "other", "transport"}

\* C3: while only 429/503 and transport failures have occurred, k <= MAX_RETRIES
\* of them leave the call in its loop after exactly k waits, and a success on
\* attempt k+1 returns that response, unraised, after k+1 requests and k waits.
C3_SuccessAfterRetryableFailures ==
    (xpc # "idle" /\ failed \subseteq {"rate", "transport"}) =>
        /\ xpc = "returned" =>
            /\ LastIsSuccess
            /\ exc = NoExc
            /\ nreq = nwait + 1
            /\ nwait = attempt
            /\ nwait <= MAX_RETRIES
        /\ (~LastIsSuccess /\ nreq <= MAX_RETRIES) => (xpc = "loop" /\ nwait = nreq)

C3_Witness ==
    /\ xpc = "returned"
    /\ failed = {"rate", "transport"}
    /\ nreq = MAX_RETRIES + 1
    /\ nwait = MAX_RETRIES

\* C4: whatever the call raises is the request failure of the attempt that
\* failed; the RuntimeError after the loop is never raised.
C4_RaisesUnderlyingFailure ==
    xpc = "raised" =>
        /\ exc.type # "RuntimeError"
        /\ exc.type = (IF resp.kind = "response" THEN "HTTPError" ELSE resp.kind)
        /\ exc.attempt = attempt

\* C5: when every attempt ends in a transport failure the call ends after
\* exactly MAX_RETRIES + 1 requests and MAX_RETRIES waits, raising the transport
\* failure of the last attempt.
C5_TransportFailuresExhaustBudget ==
    (failed = {"transport"} /\ LastIsTransport) =>
        IF nreq = MAX_RETRIES + 1
        THEN /\ xpc = "raised"
             /\ nwait = MAX_RETRIES
             /\ exc = Exc(resp.kind, 0, MAX_RETRIES)
        ELSE /\ xpc = "loop"
             /\ nreq <= MAX_RETRIES
             /\ nwait = nreq

C5_Witness ==
    /\ failed = {"transport"}
    /\ xpc = "raised"
    /\ nreq = MAX_RETRIES + 1
    /\ exc.type = "Timeout"

\* the Retry-After value as a number, for the headers that are numbers
HeaderNumber(h) ==
    CASE h = "0" -> Rat(0, 1)
      [] h = "2" -> Rat(2, 1)
      [] h = "1.5" -> Rat(3, 2)
      [] h = "8" -> Rat(8, 1)
      [] h = "120" -> Rat(120, 1)
      [] h = "-1" -> Rat(-1, 1)
      [] h = "inf" -> Inf
NumericHeaders == {"0", "2", "1.5", "8", "120", "-1", "inf"}

\* C6: after a 429/503 whose Retry-After header is a number h the wait is
\* min(h, BACKOFF_CAP), whatever the attempt index is.
C6_RetryAfterWait ==
    (LastIsRate /\ resp.retry_after \in NumericHeaders) =>
        FEq(wait_s, MathMin(HeaderNumber(resp.retry_after), Rat(8, 1)))

C6_Witness ==
    /\ LastIsRate
    /\ resp.retry_after = "120"
    /\ attempt = 2
    /\ wait_s = Rat(8, 1)

\* C7: after a 429/503 whose Retry-After header is absent, empty or no number
\* the wait is min(BACKOFF_BASE^attempt * 2, BACKOFF_CAP), attempt being the
\* zero-based index of the attempt.
C7_FallbackWait ==
    (LastIsRate /\ resp.retry_after \in
            {NoHeader, "", "abc", "Wed, 21 Oct 2015 07:28:00 GMT"}) =>
        /\ attempt = nreq - 1
        /\ FEq(wait_s, ExpectedBackoff(attempt))

C7_Witness ==
    /\ LastIsRate
    /\ resp.retry_after = "abc"
    /\ attempt = 2
    /\ BACKOFF_BASE = DefaultBackoffBase
    /\ wait_s = Rat(32, 25)

\* C8: after a transport failure of attempt i < MAX_RETRIES the wait is
\* min(BACKOFF_BASE^(i+1) * 2, BACKOFF_CAP).
C8_TransportWait ==
    (LastIsTransport /\ attempt < MAX_RETRIES) =>
        /\ attempt = nreq - 1
        /\ FEq(wait_s, ExpectedBackoff(attempt + 1))

C8_Witness ==
    /\ LastIsTransport
    /\ attempt = 2
    /\ BACKOFF_BASE = Rat(2, 1)
    /\ wait_s = Rat(8, 1)
    /\ nwait = 3

NoRetryAfter(o) == o.kind = "response" => o.retry_after = NoHeader

\* C24: under the default BACKOFF_BASE and without Retry-After headers, the
\* wait computed after a failed attempt is never shorter than the wait
\* computed after the attempt before it, in the same call.
C24_WaitsNeverShrink ==
    [][(/\ BACKOFF_BASE = Rat(4, 5)
        /\ xpc = "loop"
        /\ attempt >= 0
        /\ attempt' = attempt + 1
        /\ nwait' = nwait + 1
        /\ failed' \subseteq {"rate", "transport"}
        /\ NoRetryAfter(resp)
        /\ NoRetryAfter(resp'))
            => ~FLt(wait_s', wait_s)]_vars

\* a <= b on floats: false when either is nan
FLe(a, b) == ~IsNaN(a) /\ ~IsNaN(b) /\ a.n * b.d <= b.n * a.d

\* C27: every wait the executor computes, from Retry-After or from either
\* backoff formula, is <= BACKOFF_CAP.
C27_WaitWithinCap == wait_s # Unbound => FLe(wait_s, Rat(8, 1))

\* C28: while every attempt of a call returns 429 or 503 the call keeps
\* retrying and never returns a response; it raises to its caller after exactly
\* MAX_RETRIES + 1 requests and not before.
C28_RateLimitExhaustsBudget ==
    (failed = {"rate"} /\ LastIsRate) =>
        /\ xpc \in {"loop", "raised"}
        /\ xpc = "loop" <=> nreq <= MAX_RETRIES
        /\ xpc = "raised" =>
            /\ nreq = MAX_RETRIES + 1
            /\ attempt = MAX_RETRIES
            /\ exc # NoExc
            /\ exc.attempt = MAX_RETRIES

C28_Witness ==
    /\ failed = {"rate"}
    /\ xpc = "raised"
    /\ nreq = MAX_RETRIES + 1
    /\ resp.status = 503
    /\ resp.retry_after = "2"

----------------------------------------------------------------------------
(* Properties of _search_ids, checked under SpecSearch *)

\* C9: for max_items >= 0 a search that returns hands back at most max_items
\* ids.
C9_ResultWithinMaxItems ==
    (spc = "done" /\ max_items >= 0) => Len(result) <= max_items

C9_Witness ==
    /\ spc = "done"
    /\ max_items = 2
    /\ Len(ids) > max_items
    /\ Len(result) = 2

\* clamp(max_items, 1, 100) and the quotient rounded up
PageSize == IF max_items < 1 THEN 1 ELSE IF max_items > 100 THEN 100 ELSE max_items
CeilDiv(a, b) == (a + b - 1) \div b

NoEmptyPage == \A i \in 1 .. Len(pageLog) : pageLog[i].len > 0
OnlyFullPages ==
    \A i \in 1 .. Len(pageLog) : pageLog[i].len = PageSize /\ pageLog[i].nids = PageSize

WithinLimit == \A i \in 1 .. Len(pageLog) : pageLog[i].len <= PageSize

RECURSIVE SumIds(_)
\* the ids carried by the pages of a log, counted
SumIds(log) == IF log = <<>> THEN 0 ELSE Head(log).nids + SumIds(Tail(log))

NonEmptyPages == Cardinality({i \in 1 .. Len(pageLog) : pageLog[i].len > 0})
LastPageEmpty == Len(pageLog) > 0 /\ pageLog[Len(pageLog)].len = 0

\* C11: when the k-th page request returns an empty data list the search makes
\* no request after the k-th, raises nothing and returns the ids of pages
\* 1..k-1.
C11_EmptyPageEndsSearch ==
    LastPageEmpty =>
        /\ spc = "done"
        /\ Len(searchReqs) = Len(pageLog)
        /\ \A i \in 1 .. Len(pageLog) - 1 : pageLog[i].len > 0
        /\ result = ids
        /\ Len(result) = SumIds(pageLog)

C11_Witness ==
    /\ LastPageEmpty
    /\ Len(pageLog) = 3
    /\ Len(result) = 2
    /\ max_items = 3

IdBearingPages == \A i \in 1 .. Len(pageLog) : pageLog[i].len > 0 => pageLog[i].nids >= 1

\* C12 as stated: every non-empty page adds at least one id, so a search for
\* max_items ids makes at most max_items page requests.
C12_EveryPageGrowsIds ==
    /\ Len(ids) >= NonEmptyPages
    /\ Len(searchReqs) <= IMax(max_items, 0)

\* C12 amended: when every non-empty page carries at least one id, every such
\* page adds at least one id and the search makes at most max_items page
\* requests.
C12_IdBearingPagesGrowIds ==
    IdBearingPages =>
        /\ Len(ids) >= NonEmptyPages
        /\ Len(searchReqs) <= IMax(max_items, 0)

C12_Witness ==
    /\ IdBearingPages
    /\ spc = "done"
    /\ max_items = 2
    /\ Len(searchReqs) = 2
    /\ NonEmptyPages = 2

\* clamp(max_items, 1, 100)
Clamped == IF max_items < 1 THEN 1 ELSE IF max_items > 100 THEN 100 ELSE max_items

\* C29: the j-th page request of a search carries page j and the limit
\* clamp(max_items, 1, 100); page grows by exactly 1 when a non-empty page has
\* been handled and at no other step, the executor's attempts included.
C29_PageNumbering ==
    /\ [](\A j \in 1 .. Len(searchReqs) :
            /\ searchReqs[j].page = j
            /\ searchReqs[j].limit = Clamped
            /\ searchReqs[j].q = term)
    /\ [](spc \in {"while", "await"} => page = Len(pageLog) + 1)
    /\ [][/\ page' # page =>
                /\ page' = page + 1
                /\ Len(pageLog') = Len(pageLog) + 1
                /\ pageLog'[Len(pageLog')].len > 0
                /\ nreq > 0
          /\ (Len(pageLog') = Len(pageLog) + 1 /\ pageLog'[Len(pageLog')].len > 0) =>
                page' = page + 1
          /\ nreq' > nreq => (page' = page /\ searchReqs' = searchReqs)
          /\ per_page' = per_page]_vars

C29_Witness ==
    /\ Len(searchReqs) = 3
    /\ searchReqs[3] = [q |-> "peace", page |-> 3, limit |-> 100]
    /\ max_items = PageCap + 1
    /\ nwait = 2
    /\ xpc = "loop"

\* the ids of the elements of the j-th page received that carry one, in order
IdsOfPage(j) ==
    LET e == pageLog[j]
        Carries(i) == e.pat = "all" \/ (e.pat = "even" /\ i % 2 = 0)
        ks == SelectSeq([i \in 1 .. e.len |-> i], Carries)
    IN  [i \in 1 .. Len(ks) |-> ToString(j * 1000 + ks[i])]

RECURSIVE IdsUpTo(_)
IdsUpTo(j) == IF j = 0 THEN <<>> ELSE IdsUpTo(j - 1) \o IdsOfPage(j)

----------------------------------------------------------------------------
(* Properties of _fetch_details, checked under SpecDetails *)

\* C13: _fetch_details with no ids issues no HTTP request and returns an empty
\* sequence.
C13_NoIdsNoRequest ==
    (entry = "_fetch_details" /\ dids = <<>> /\ dpc # "start") =>
        /\ dpc = "done"
        /\ results = <<>>
        /\ detailReqs = <<>>
        /\ xpc = "idle"
        /\ nreq = 0

C13_Witness == entry = "_fetch_details" /\ dids = <<>> /\ dpc = "done"

RECURSIVE Flatten(_)
\* the concatenation of a sequence of sequences
Flatten(ss) == IF ss = <<>> THEN <<>> ELSE Head(ss) \o Flatten(Tail(ss))

\* ids 50(j-1)+1 .. min(50j, n) of the input
Slice(j) ==
    LET hi == IF 50 * j < Len(dids) THEN 50 * j ELSE Len(dids)
    IN  [i \in 1 .. hi - 50 * (j - 1) |-> dids[50 * (j - 1) + i]]

\* C14: _fetch_details on n ids, no request failing, issues ceil(n/50) logical
\* requests, request j carrying the j-th consecutive slice of at most 50 ids
\* (exactly 50 but for the last); the slices concatenate to the input and the
\* result is the concatenation of the responses' data lists in chunk order.
C14_ChunkedRequests ==
    (entry = "_fetch_details" /\ dpc = "done") =>
        LET c == CeilDiv(Len(dids), 50) IN
        /\ Len(detailReqs) = c
        /\ Len(respLog) = c
        /\ \A j \in 1 .. c :
            /\ detailReqs[j].ids = Join(Slice(j))
            /\ Len(Slice(j)) <= 50
            /\ j < c => Len(Slice(j)) = 50
            /\ Len(Slice(j)) >= 1
        /\ Flatten([j \in 1 .. c |-> Slice(j)]) = dids
        /\ results = Flatten(respLog)

C14_Witness ==
    /\ entry = "_fetch_details"
    /\ dpc = "done"
    /\ Len(dids) = 101
    /\ Len(detailReqs) = 3
    /\ Len(respLog[1]) = 50
    /\ Len(respLog[2]) = 49
    /\ Len(results) = 101

----------------------------------------------------------------------------
(* Properties of fetch_report_data, checked under SpecReport *)

\* C15: every value fetch_report_data returns has count = len(items), whatever
\* the API answered.
C15_CountIsLenItems == rpc = "done" => out.count = Len(out.items)

C15_Witness ==
    /\ rpc = "done"
    /\ out.count = 2
    /\ Len(dids) = 3

\* every detail response holds exactly the records of the ids asked for
ExactDetails ==
    \A j \in 1 .. Len(respLog) :
        /\ Len(respLog[j]) = Len(batches[j])
        /\ \A i \in 1 .. Len(respLog[j]) : respLog[j][i].id = batches[j][i]

\* C16: when the search found at least max_items ids and every detail response
\* holds one record per requested id, details are requested for exactly the
\* first max_items ids found and the result has count = len(items) = max_items.
C16_CountIsMaxItems ==
    (rpc = "done" /\ Len(ids) >= rmax_items /\ ExactDetails) =>
        /\ dids = [i \in 1 .. rmax_items |-> ids[i]]
        /\ Flatten(batches) = dids
        /\ out.count = rmax_items
        /\ Len(out.items) = rmax_items
        /\ \A i \in 1 .. rmax_items : out.items[i].id = ids[i]

C16_Witness ==
    /\ rpc = "done"
    /\ rmax_items = 3
    /\ Len(ids) = 4
    /\ ExactDetails
    /\ out.count = 3

\* fetch_report_data got past its first lines (int() did not raise)
Began == rpc \in {"search", "details", "done"} \/ (rpc = "raised" /\ rexc.type # "ValueError")

\* the effective values reach the search, the detail fetch and the result
EffectiveUsed ==
    /\ term = search
    /\ max_items = rmax_items
    /\ \A i \in 1 .. Len(searchReqs) : searchReqs[i].q = search
    /\ rpc \in {"details", "done"} => fields = rfields
    /\ \A j \in 1 .. Len(detailReqs) : detailReqs[j].fields = Join(rfields)
    /\ rpc = "done" =>
        out.report =
            [name |-> name, search |-> search, fields |-> rfields, max_items |-> rmax_items]

\* C17 as stated: a missing name, search, fields or max_items is replaced by
\* "report", "", the four default fields and 25; a supplied value is used and
\* echoed unchanged.
C17_SuppliedValuesUnchanged ==
    Began =>
        /\ name = (IF "name" \in DOMAIN report THEN report.name ELSE "report")
        /\ search = (IF "search" \in DOMAIN report THEN report.search ELSE "")
        /\ rfields = (IF "fields" \in DOMAIN report THEN report.fields
                      ELSE <<"id", "title", "artist_title", "date_display">>)
        /\ rmax_items = (IF "max_items" \in DOMAIN report
                         THEN PyInt(report.max_items).v
                         ELSE 25)
        /\ EffectiveUsed

\* C18: when a logical request of the search or of the detail fetch fails in
\* the executor, fetch_report_data raises that failure, returns nothing and
\* issues no request after the failing one.
C18_FailurePropagates ==
    /\ (rpc = "raised" /\ xpc = "raised") =>
        /\ parse_exc = NoExc
        /\ rexc = exc
        /\ exc.attempt = attempt
        /\ out = NoOut
        /\ spc = "raised" \/ dpc = "raised"
        /\ ~ENABLED NextReport
    /\ (entry = "fetch_report_data" /\ xpc = "raised") =>
        /\ rpc \in {"search", "details", "raised"}
        /\ ~ENABLED Attempt
        /\ ~ENABLED SearchLoop
        /\ ~ENABLED DetailsLoop
        /\ ~ENABLED ReportReturn

C18_Witness ==
    /\ rpc = "raised"
    /\ dpc = "raised"
    /\ Len(detailReqs) = 2
    /\ Len(results) = 50
    /\ rexc.type = "Timeout"
    /\ out = NoOut

\* logical requests issued and not answered yet
Outstanding == (Len(searchReqs) - Len(pageLog)) + (Len(detailReqs) - Len(respLog))

\* C19: in one fetch_report_data call at most one request is under way, every
\* search page is complete before the first detail chunk is requested, and the
\* detail chunks are requested in chunk order, each complete before the next.
C19_OneRequestAtATime ==
    entry = "fetch_report_data" =>
        /\ Outstanding \in {0, 1}
        /\ xpc = "loop" => Outstanding = 1
        /\ Len(detailReqs) > 0 =>
            /\ spc = "done"
            /\ Len(searchReqs) = Len(pageLog)
        /\ Len(respLog) \in {Len(detailReqs), Len(detailReqs) - 1}
        /\ \A j \in 1 .. Len(detailReqs) : detailReqs[j].ids = Join(Slice(j))

C19_Witness ==
    /\ rpc = "details"
    /\ Len(searchReqs) = 2
    /\ Len(detailReqs) = 2
    /\ Len(respLog) = 1
    /\ xpc = "loop"
    /\ nwait = 2

----------------------------------------------------------------------------
(* Properties of main, checked under SpecCli *)

\* the runtime limit is set and the elapsed time is above it
BudgetExceeded == max_runtime # 0 /\ now - start_ts > max_runtime

\* main is past its for loop
LoopLeft == cpc \in {"summary", "exit", "exited"} /\ reports # <<>>

\* the last entry of a summary is a failed one
LastFailed(sm) == Len(sm) > 0 /\ sm[Len(sm)].status = "failed"

\* C20: a report that fails in fetch, JSON write, PDF render or email is
\* recorded and the loop goes on: unless the budget check stops the loop, the
\* next report of the configuration is started, none is skipped, and a loop
\* that was not stopped has handled every report in configuration order.
C20_FailedReportDoesNotAbort ==
    /\ [](\A i \in 1 .. Len(summary) : summary[i].name = CliNameOf(reports[i]))
    /\ []((LoopLeft /\ ~BudgetExceeded) =>
            /\ rpt_i = Len(reports)
            /\ Len(summary) = Len(reports))
    /\ [][/\ (Len(summary') > Len(summary) /\ LastFailed(summary')) =>
                /\ cpc' = "check"
                /\ failures' = failures + 1
                /\ summary'[Len(summary')].error \in
                       {"fetch_report_data", "write_json", "render_pdf", "send_email"}
          /\ (cpc = "check" /\ ~BudgetExceeded) => cpc' = "for"
          /\ (cpc = "for" /\ rpt_i < Len(reports)) =>
                /\ rpt_i' = rpt_i + 1
                /\ cname' = CliNameOf(reports[rpt_i + 1])
          /\ rpt_i' \in {rpt_i, rpt_i + 1}
          /\ cpc # "load" => reports' = reports]_vars

C20_Witness ==
    /\ cpc = "exited"
    /\ Len(reports) = 2
    /\ Len(summary) = 2
    /\ summary[1].status = "failed"
    /\ summary[1].error = "render_pdf"
    /\ summary[2].status = "ok"
    /\ ~BudgetExceeded
    /\ exit_code = 1

\* the body decoded last is not of the shape {"data": [...]}
LastBodyMalformed == bodies # <<>> /\ bodies[Len(bodies)] # "data_list"

\* C22: a 2xx response whose body is not JSON or lacks the {"data": [...]}
\* shape makes the stage that decoded it raise a parsing failure, which
\* leaves fetch_report_data; it is not taken for an empty result.
C22_MalformedBodyFails ==
    LastBodyMalformed =>
        /\ spc = "raised" \/ dpc = "raised"
        /\ parse_exc.type \in {"JSONDecodeError", "AttributeError", "KeyError"}
        /\ rpc \in {"search", "details", "raised"}
        /\ rpc = "raised" => rexc = parse_exc
        /\ out = NoOut

----------------------------------------------------------------------------
(* Properties of fetch_report_data against a fixed dataset, checked under
   SpecDataset *)

\* logical requests issued so far: search pages and detail chunks
LogicalRequests == Len(searchReqs) + Len(detailReqs)

\* C25: every executor call of a fetch starts afresh, its first attempt has
\* index 0 and it gives up only after MAX_RETRIES + 1 requests of its own,
\* however many retries the earlier pages and chunks took; so a fetch with P
\* logical requests issues at most P * (MAX_RETRIES + 1) HTTP requests.
C25_BudgetPerLogicalRequest ==
    /\ [](nhttp <= LogicalRequests * (MAX_RETRIES + 1))
    /\ [](nreq <= MAX_RETRIES + 1)
    /\ []((xpc = "raised") => nreq = MAX_RETRIES + 1)
    /\ [][/\ (xpc # "loop" /\ xpc' = "loop") =>
                /\ LogicalRequests' = LogicalRequests + 1
                /\ attempt' = -1 /\ nreq' = 0 /\ nwait' = 0
                /\ wait_s' = Unbound /\ failed' = {}
          /\ (nreq = 0 /\ nreq' = 1) => attempt' = 0
          /\ nhttp' # nhttp => (nhttp' = nhttp + 1 /\ nreq' = nreq + 1)]_vars

C25_Witness ==
    /\ LogicalRequests = 2
    /\ nhttp = 2 * (MAX_RETRIES + 1)
    /\ xpc = "returned"
    /\ nwait = MAX_RETRIES

\* the page size the dataset is served with
ServedLimit == IF rmax_items < 1 THEN 1 ELSE IF rmax_items > 100 THEN 100 ELSE rmax_items

\* element k of the dataset lies on page PageOf(k) at position PosOf(k)
PageOf(k) == ((k - 1) \div ServedLimit) + 1
PosOf(k) == ((k - 1) % ServedLimit) + 1
CarriesId(k) == api.pat = "all" \/ (api.pat = "even" /\ PosOf(k) % 2 = 0)

\* the ids of the dataset in its order, and the ones the report is to hold
DatasetIds ==
    LET ks == SelectSeq([k \in 1 .. api.total |-> k], CarriesId)
    IN  [i \in 1 .. Len(ks) |-> ToString(PageOf(ks[i]) * 1000 + PosOf(ks[i]))]
WantedIds ==
    [i \in 1 .. (IF Len(DatasetIds) < rmax_items THEN Len(DatasetIds) ELSE rmax_items) |->
        DatasetIds[i]]

\* some HTTP request of the fetch was a retry
SomeRetry == nhttp > LogicalRequests

\* C26: against a fixed dataset every fetch_report_data call that returns,
\* whatever 429/503 and transport failures were retried on the way, returns
\* the result the dataset determines: the effective report, the records of
\* the first max_items ids of the dataset, and their count.
C26_ResultIndependentOfFailures ==
    rpc = "done" =>
        /\ result = WantedIds
        /\ out.report = [name |-> name, search |-> search, fields |-> rfields,
                         max_items |-> rmax_items]
        /\ IF api.kind = "exact"
           THEN /\ Len(out.items) = Len(WantedIds)
                /\ \A i \in 1 .. Len(WantedIds) : out.items[i].id = WantedIds[i]
           ELSE out.items = <<>>
        /\ out.count = Len(out.items)
        /\ nhttp >= LogicalRequests

C26_Witness ==
    /\ rpc = "done"
    /\ nhttp >= LogicalRequests + 3
    /\ Len(searchReqs) = 3
    /\ Len(detailReqs) = 1
    /\ out.count = 2
    /\ api.pat = "even"

----------------------------------------------------------------------------
(* Properties of bounded_sleep, checked under SpecSleep *)

\* C21: bounded_sleep returns without raising for every argument, and for a
\* negative or nan argument time.sleep is given 0 and sleeps zero seconds
\* without failing.
C21_SleepNeverRaises ==
    /\ bpc # "raised"
    /\ bpc = "returned" =>
        /\ ~IsNegative(slept_for) /\ ~IsNaN(slept_for)
        /\ (seconds.d > 0 /\ seconds.n >= 0) => (FEq(slept_for, seconds) /\ swallowed = "none")
        /\ (seconds.d >= 0 /\ (seconds.n < 0 \/ seconds = Rat(0, 0))) =>
            /\ sleep_arg = Rat(0, 1)
            /\ slept_for = Rat(0, 1)
            /\ swallowed = "none"

C21_Witness ==
    /\ bpc = "returned"
    /\ seconds = Rat(0, 0)
    /\ sleep_arg = Rat(0, 1)
    /\ swallowed = "none"


\* the records of all detail responses of the call, in order
Received == Flatten(respLog)

\* C31: the items of a returned report are all the records the detail
\* responses held, untruncated, and count is their number, be they more or
\* fewer than the ids asked for; a detail stage that fails does so by the
\* executor or by a body that cannot be read, never by the number of records.
\* So items may outnumber max_items (the witness).
C31_ItemsAreWhatDetailsReturned ==
    /\ rpc = "done" =>
          /\ out.items = Received
          /\ out.count = Len(Received)
    /\ (rpc = "raised" /\ dpc = "raised") => (xpc = "raised" \/ parse_exc # NoExc)
    /\ dpc = "done" => Len(respLog) = Len(batches)

C31_Witness ==
    /\ rpc = "done"
    /\ rmax_items > 0
    /\ Len(out.items) > rmax_items
    /\ Len(dids) = rmax_items

\* C32: no step of fetch_report_data, in a call that returns or in one that
\* fails, changes the report record it was given; the defaults it applies go
\* to its locals and to the result only.
C32_ReportUnmodified == [][report' = report]_vars

C32_Witness ==
    /\ rpc = "done"
    /\ report = [x \in {} |-> 0]
    /\ out.report.name = "report"
    /\ out.report.max_items = DefaultMaxItems
    /\ out.count > 0

\* main is at one of the stages of a report inside the try statement
InReport == cpc \in {"fetch", "write_json", "render_pdf", "send_email"}

\* C33: the runtime limit is tested only at the check that follows a report.
\* The loop is left only at its head with every report handled, or at the
\* check with the limit exceeded; a stage of a report ends by its own outcome
\* even when the time goes beyond the limit in it; the first report is started
\* whatever the limit; a check that finds the limit exceeded starts no further
\* report; and the summary then holds the reports handled so far and
\* summary.json is written with them.
C33_BudgetCheckedBetweenReports ==
    [][/\ (cpc # "summary" /\ cpc' = "summary") =>
              \/ cpc = "for" /\ rpt_i = Len(reports)
              \/ cpc = "check" /\ BudgetExceeded
       /\ InReport => (InReport' \/ cpc' = "check")
       /\ (cpc = "for" /\ rpt_i = 0) => rpt_i' = 1
       /\ (cpc = "check" /\ BudgetExceeded) => (cpc' = "summary" /\ rpt_i' = rpt_i)
       /\ (cpc \in {"summary", "exit"}) => (rpt_i' = rpt_i /\ summary' = summary)
       /\ cpc = "summary" =>
              /\ Len(summary) = rpt_i
              /\ job_summary'.reports = summary
              /\ cpc' = "exit" => SummaryFile \in files']_vars

C33_Witness ==
    /\ cpc = "exited"
    /\ BudgetExceeded
    /\ Len(reports) = 2
    /\ rpt_i = 1
    /\ Len(summary) = 1
    /\ job_summary.reports = summary
    /\ job_summary.reports_total = 2
    /\ SummaryFile \in files

\* the entries of a summary with status "ok"
OkEntries(sm) == SelectSeq(sm, LAMBDA e : e.status = "ok")

\* C34: in a dry run no email is ever sent, while every report recorded as ok
\* has its JSON and PDF files written; otherwise an email is sent only at the
\* send stage, which is entered only from a PDF render that succeeded, which
\* is entered only from a JSON write that succeeded, which is entered only
\* from a fetch that returned data, all for the same report.
C34_EmailOnlyAfterArtifacts ==
    /\ [](dry_run => emails = <<>>)
    /\ [](\A i \in 1 .. Len(summary) : summary[i].status = "ok" =>
              /\ summary[i].json \in files
              /\ summary[i].pdf \in files)
    /\ [](~dry_run => Len(emails) = Len(OkEntries(summary)))
    /\ [][/\ emails' # emails =>
                 /\ cpc = "send_email"
                 /\ ~dry_run
                 /\ emails' = Append(emails, File(safe_name, "pdf"))
                 /\ File(safe_name, "pdf") \in files
                 /\ File(safe_name, "json") \in files
          /\ (cpc # "send_email" /\ cpc' = "send_email") =>
                 /\ cpc = "render_pdf"
                 /\ File(safe_name, "pdf") \in files'
                 /\ rpt_i' = rpt_i
          /\ (cpc # "render_pdf" /\ cpc' = "render_pdf") =>
                 /\ cpc = "write_json"
                 /\ File(safe_name, "json") \in files'
                 /\ rpt_i' = rpt_i
          /\ (cpc # "write_json" /\ cpc' = "write_json") =>
                 /\ cpc = "fetch"
                 /\ fetched' # NoData_
                 /\ rpt_i' = rpt_i]_vars

C34_Witness ==
    /\ cpc = "exited"
    /\ dry_run
    /\ Len(summary) = 2
    /\ summary[1].status = "ok"
    /\ summary[2].status = "ok"
    /\ summary[1].json \in files
    /\ summary[2].pdf \in files
    /\ emails = <<>>

\* main is over: it exited, or an exception left it
Ended == cpc \in {"exited", "crashed"}

\* a processed report failed
SomeFailed == CountStatus(summary, "failed") > 0

\* C35 as claimed: whenever main is over, its status is 1 exactly when a
\* processed report failed, and summary.json has been written.
C35_ExitOneIffReportFailed ==
    Ended => /\ (exit_code = 1 <=> SomeFailed)
             /\ SummaryFile \in files

\* C35, amended: a main that got past the loading of a configuration with
\* reports and reached its last lines has written summary.json with every
\* handled report and ends with status 1 exactly when a processed report
\* failed, else 0; a configuration that does not load or has no reports ends
\* main with status 1, no report processed and no summary.json; an exception
\* outside the try statement of the loop ends it with status 1 as well, and
\* without summary.json.
C35_ExitStatusByCase ==
    /\ (cpc = "exited" /\ reports # <<>>) =>
          /\ exit_code \in {0, 1}
          /\ exit_code = 1 <=> SomeFailed
          /\ SomeFailed <=> failures > 0
          /\ SummaryFile \in files
          /\ job_summary.reports = summary
    /\ (cpc = "exited" /\ reports = <<>>) =>
          /\ exit_code = 1
          /\ summary = <<>>
          /\ SummaryFile \notin files
    /\ cpc = "crashed" =>
          /\ exit_code = 1
          /\ cexc \in {"TypeError", "OSError"}
          /\ SummaryFile \notin files
    /\ ~Ended => exit_code = -1

C35_Witness ==
    /\ cpc = "exited"
    /\ Len(reports) = 2
    /\ Len(summary) = 2
    /\ summary[1].status = "ok"
    /\ summary[2].status = "failed"
    /\ exit_code = 1
    /\ SummaryFile \in files

\* C36: once the report loop is left, the summary holds one entry per started
\* report, in configuration order, each "ok" or "failed"; the failed entries
\* are as many as the failure counter says; and the job summary built from it
\* has reports_ok + reports_failed = reports started = failures + ok entries
\* <= reports_total.
C36_SummaryAccounting ==
    /\ LoopLeft =>
          /\ Len(summary) = rpt_i
          /\ rpt_i <= Len(reports)
          /\ \A i \in 1 .. Len(summary) :
                /\ summary[i].name = CliNameOf(reports[i])
                /\ summary[i].status \in {"ok", "failed"}
          /\ CountStatus(summary, "failed") = failures
          /\ CountStatus(summary, "ok") + failures = rpt_i
    /\ job_summary # NoJob =>
          /\ job_summary.reports = summary
          /\ job_summary.reports_total = Len(reports)
          /\ job_summary.reports_ok + job_summary.reports_failed = rpt_i
          /\ job_summary.reports_ok + job_summary.reports_failed
                = failures + CountStatus(summary, "ok")
          /\ job_summary.reports_ok + job_summary.reports_failed
                <= job_summary.reports_total

C36_Witness ==
    /\ cpc = "exited"
    /\ job_summary # NoJob
    /\ job_summary.reports_total = 2
    /\ job_summary.reports_ok = 0
    /\ job_summary.reports_failed = 1
    /\ failures = 1
    /\ rpt_i = 1

\* C37: every wait of a call is followed by a further attempt of that call,
\* so a call that has ended has waited at most as often as the index of its
\* last attempt says, and never after attempt MAX_RETRIES, whether its
\* attempts met 429/503 or transport failures.
C37_EveryWaitFollowedByAttempt ==
    (failed \subseteq {"rate", "transport"}) =>
        /\ nwait <= MAX_RETRIES
        /\ xpc \in {"returned", "raised"} => nwait <= attempt

\* an HTTP status of a client or server error
ErrorStatus(st) == st >= 400 /\ st < 600

\* C38: a call of the executor that returns hands back a response whose status
\* is no error status, 429 and 503 included, and has raised nothing; a stage
\* decodes a body only of such a response, one body per returned call.
C38_OnlySuccessfulResponsesParsed ==
    /\ [](xpc = "returned" =>
             /\ resp.kind = "response"
             /\ ~ErrorStatus(resp.status)
             /\ resp.status \notin {429, 503}
             /\ exc = NoExc)
    /\ [][bodies' # bodies =>
             /\ xpc = "returned"
             /\ resp.kind = "response"
             /\ ~ErrorStatus(resp.status)
             /\ Len(bodies') = Len(bodies) + 1]_vars

C38_Witness ==
    /\ dpc = "await"
    /\ xpc = "returned"
    /\ resp.status = 200
    /\ failed = {"rate", "other", "transport"}
    /\ Len(bodies) = 1

====
